---- MODULE Spec2Model ----
(***************************************************************************)
(* State-machine model of the blogging platform: the hosted tables (blogs, *)
(* blog_likes, blog_comments, blog_views, blog_analytics) with their       *)
(* constraints, triggers and stored functions, and the page components     *)
(* that read and write them (WriteBlog, Profile, AdminDashboard,           *)
(* LikeButton, Comments, TrendingBlogs).                                   *)
(***************************************************************************)
EXTENDS Integers, Sequences, FiniteSets, TLC

\* ---------------------------------------------------------------- bounds
MaxBlogs == 1        \* blog rows inserted through the WriteBlog page
TrendBlogs == 2      \* blog rows present when the trending function is called
MaxLikes == 2        \* blog_likes rows present then
MaxComments == 1     \* blog_comments rows present then
MaxViews == 1        \* blog_views rows of the current date present then
MaxReplies == 1      \* blog_comments rows with a parent
MaxEngagement == 60  \* total_engagement values given to the badge functions
MaxTitle == 2        \* characters of a title typed into the WriteBlog page
MaxResults == 25     \* approved articles that match a category or search query
MaxQueries == 3      \* queries one mounted result page issues
MaxInFlight == 2     \* like requests of the detail page that await their response

\* get_trending_blogs(limit_count INTEGER DEFAULT 10)
DefaultLimit == 10

\* const blogsPerPage = 12 of CategoryPage and SearchResults
blogsPerPage == 12

\* ------------------------------------------------------------ vocabulary
NULL == "null"       \* SQL NULL
TS == "ts"           \* any non-null timestamp (new Date().toISOString(), now())
CURRENT_DATE == "today"
NoParent == 0        \* blog_comments.parent_id IS NULL (comment ids start at 1)

Profiles == {"u1", "u2", "a1", "a2"}

\* profiles.role (user_role enum, DEFAULT 'user'); a1 and a2 were promoted
role == [p \in Profiles |-> IF p \in {"a1", "a2"} THEN "admin" ELSE "user"]

is_admin(p) == role[p] = "admin"

blog_status == {"draft", "pending", "approved", "rejected"}

\* ids that blog rows can have in any of the specifications below
BlogIds == 1..(IF MaxBlogs > TrendBlogs THEN MaxBlogs ELSE TrendBlogs)

\* handleBlogAction's action parameter
BlogActions == {"approve", "reject", "delete", "hide", "unhide"}

\* page and component instances (browser tabs) and the signed-in profile of each
AdminPages == {"d1", "d2", "d3"}
ProfilePages == {"p1", "p2"}
WritePages == {"w1"}
LikeButtons == {"k1", "k2", "k3"}
CommentBoxes == {"c1"}
pageProfile == [pg \in AdminPages \cup ProfilePages \cup WritePages \cup LikeButtons
                       \cup CommentBoxes |->
                  CASE pg = "d1" -> "a1"
                    [] pg = "d2" -> "a2"
                    [] pg = "d3" -> "u1"
                    [] pg = "k3" -> "u2"
                    [] pg = "c1" -> "u2"
                    [] OTHER -> "u1"]

VARIABLES
  blogs,          \* table public.blogs: id -> row
  nextBlogId,     \* number of rows inserted into blogs so far, plus one
  blog_likes,     \* table public.blog_likes: <<blog_id, user_id>> -> number of rows
  blog_comments,  \* table public.blog_comments: id -> row
  blog_views,     \* table public.blog_views: blog_id -> number of rows viewed today
  blog_analytics, \* table public.blog_analytics: row -> number of such rows
  adminBlogs,     \* AdminDashboard state `blogs`, per dashboard instance
  profileBlogs,   \* Profile state `blogs`, per profile-page instance
  likeButton,     \* LikeButton state, per button instance
  trending,       \* the last get_trending_blogs call and its response
  apiCall,        \* the last statement a session sent to the data API directly
  errorToast,     \* title of the last destructive toast raised, per page instance
  publicPage,     \* the last load of a public page: page, viewer, articles shown
  commentsBox,    \* Comments component state, per instance
  public_likes,   \* table public.likes: <<blog_id, user_id>> -> number of rows
  public_comments, \* table public.comments: blog_id -> number of rows
  detailPage,     \* BlogDetail state for the article that publicPage shows
  badge,          \* an engagement value and the badge each trending view renders for it
  writePage,      \* WriteBlog state, per page instance
  resultsPage     \* CategoryPage or SearchResults state and its queries

tables == <<blogs, nextBlogId, blog_likes, blog_comments, blog_views, blog_analytics>>
vars == <<blogs, nextBlogId, blog_likes, blog_comments, blog_views, blog_analytics,
          adminBlogs, profileBlogs, likeButton, trending, apiCall, errorToast,
          publicPage, commentsBox, public_likes, public_comments, detailPage, badge,
          writePage, resultsPage>>

EmptyTable == [x \in {} |-> NULL]

RECURSIVE SumOver(_, _)
SumOver(f, S) == IF S = {} THEN 0
                 ELSE LET x == CHOOSE y \in S : TRUE IN f[x] + SumOver(f, S \ {x})

\* ----------------------------------------------------------------- slugs
\* one character of each class that generateSlug treats differently: an
\* upper-case letter, a lower-case letter, a blank, a hyphen, anything else
Chars == {"A", "a", " ", "-", "!"}

RECURSIVE SeqsUpTo(_)
SeqsUpTo(n) == IF n = 0 THEN {<<>>}
               ELSE LET shorter == SeqsUpTo(n - 1)
                    IN shorter \cup {Append(t, c) : t \in {x \in shorter : Len(x) = n - 1},
                                                     c \in Chars}

\* what the title input can hold
Titles == SeqsUpTo(MaxTitle)

\* String.prototype.toLowerCase
toLowerCase(str) == [i \in 1..Len(str) |-> IF str[i] = "A" THEN "a" ELSE str[i]]

\* String.prototype.trim
RECURSIVE trim(_)
trim(str) == IF str = <<>> THEN str
             ELSE IF Head(str) = " " THEN trim(Tail(str))
             ELSE IF str[Len(str)] = " " THEN trim(SubSeq(str, 1, Len(str) - 1))
             ELSE str

\* str.replace(/c+/g, by): every run of c becomes one by
RECURSIVE ReplaceRuns(_, _, _)
ReplaceRuns(str, c, by) ==
  IF str = <<>> THEN str
  ELSE IF Head(str) # c THEN <<Head(str)>> \o ReplaceRuns(Tail(str), c, by)
  ELSE IF Len(str) > 1 /\ str[2] = c THEN ReplaceRuns(Tail(str), c, by)
  ELSE <<by>> \o ReplaceRuns(Tail(str), c, by)

\* generateSlug(title)
generateSlug(title) ==
  LET lower == toLowerCase(title)
      kept == SelectSeq(lower, LAMBDA c : c \in {"a", " ", "-"})
      dashed == ReplaceRuns(kept, " ", "-")
      single == ReplaceRuns(dashed, "-", "-")
  IN trim(single)

\* a title whose slug no earlier article has: the n-th article is titled
\* with n letters
TitleOf(n) == [i \in 1..n |-> "a"]

\* ------------------------------------------------------- table operations
\* rows of public.blogs after INSERT of one row with the column defaults
InsertBlog(author, slug, status, submitted_at, published_at) ==
  [b \in DOMAIN blogs \cup {nextBlogId} |->
     IF b = nextBlogId
       THEN [author_id |-> author, slug |-> slug, status |-> status, is_hidden |-> FALSE,
             published_at |-> published_at, submitted_at |-> submitted_at,
             created_at |-> nextBlogId, view_count |-> 0]
       ELSE blogs[b]]

CanWriteBlog_Anyone(p, b) == TRUE

\* USING clause of the UPDATE and DELETE policies on blogs
CanWriteBlog(p, b) == blogs[b].author_id = p \/ is_admin(p)

\* USING clause of the SELECT policy on blogs
CanReadBlog(p, b) == blogs[b].status = "approved" \/ blogs[b].author_id = p \/ is_admin(p)

\* SELECT COUNT(*) FROM blog_likes WHERE blog_id = b, over a given table
CountLikes(likes, b) == SumOver(likes, {pr \in DOMAIN likes : pr[1] = b})

\* SELECT COUNT(*) FROM blog_comments WHERE blog_id = b AND is_approved = true
CountApprovedComments(comments, b) ==
  Cardinality({c \in DOMAIN comments : comments[c].blog_id = b /\ comments[c].is_approved})

\* SELECT COUNT(*) FROM blog_views WHERE blog_id = b AND DATE(viewed_at) = CURRENT_DATE
CountViewsToday(views, b) == IF b \in DOMAIN views THEN views[b] ELSE 0

\* update_blog_analytics() run as a row trigger: new_blog_id is NEW.blog_id,
\* which is NULL when the trigger fires for a DELETE (NEW is unassigned);
\* blog_analytics.blog_id is NOT NULL, so that INSERT raises and the
\* statement that fired the trigger is rolled back.
TriggerRaises(new_blog_id) == new_blog_id = NULL

\* table t with one more row r
AddRow(t, r) ==
  [x \in DOMAIN t \cup {r} |->
     IF x = r THEN (IF r \in DOMAIN t THEN t[r] + 1 ELSE 1) ELSE t[x]]

UpsertAnalytics_InsertOnly(t, ins, upd) == AddRow(t, ins)

\* INSERT INTO blog_analytics VALUES ins ON CONFLICT (blog_id, date) DO UPDATE
\* SET ...: the row in conflict under UNIQUE(blog_id, date) is updated in
\* place to upd[row], and ins is added only when there is none
UpsertAnalytics(t, ins, upd) ==
  LET conflict == {r \in DOMAIN t : r.blog_id = ins.blog_id /\ r.date = ins.date}
  IN IF conflict = {} THEN AddRow(t, ins)
     ELSE LET old == CHOOSE r \in conflict : TRUE
          IN AddRow([x \in DOMAIN t \ {old} |-> t[x]], upd[old])

\* blog_analytics after the trigger's INSERT ... ON CONFLICT DO UPDATE,
\* computed over the tables as the firing statement leaves them
update_blog_analytics(new_blog_id, likes, comments, views) ==
  LET excluded == [blog_id |-> new_blog_id, date |-> CURRENT_DATE,
                   views |-> CountViewsToday(views, new_blog_id),
                   likes |-> CountLikes(likes, new_blog_id),
                   comments |-> CountApprovedComments(comments, new_blog_id)]
  IN UpsertAnalytics(blog_analytics, excluded,
                     [r \in DOMAIN blog_analytics |->
                        [r EXCEPT !.views = excluded.views,
                                  !.likes = excluded.likes,
                                  !.comments = excluded.comments]])

\* DELETE FROM blogs WHERE id = b cascades to blog_likes and blog_comments,
\* whose AFTER DELETE row triggers fire once per cascaded row with NEW unassigned
DeleteBlogRaises(b) ==
  /\ \/ CountLikes(blog_likes, b) > 0
     \/ \E c \in DOMAIN blog_comments : blog_comments[c].blog_id = b
  /\ TriggerRaises(NULL)

\* ON DELETE CASCADE from blogs(id): the rows of each referencing table that
\* remain when blog b is deleted
LikesAfterBlogDelete(b) ==
  [pr \in {x \in DOMAIN blog_likes : x[1] # b} |-> blog_likes[pr]]

CommentsAfterBlogDelete(b) ==
  [c \in {x \in DOMAIN blog_comments : blog_comments[x].blog_id # b} |-> blog_comments[c]]

ViewsAfterBlogDelete(b) ==
  [x \in DOMAIN blog_views \ {b} |-> blog_views[x]]

AnalyticsAfterBlogDelete(b) ==
  [r \in {x \in DOMAIN blog_analytics : x.blog_id # b} |-> blog_analytics[r]]

\* the tables after DELETE FROM blogs WHERE id = b, which removes the row and
\* its referencing rows when deletes holds and nothing otherwise
DeleteFromBlogs(b, deletes) ==
  /\ blogs' = IF deletes THEN [x \in DOMAIN blogs \ {b} |-> blogs[x]] ELSE blogs
  /\ blog_likes' = IF deletes THEN LikesAfterBlogDelete(b) ELSE blog_likes
  /\ blog_comments' = IF deletes THEN CommentsAfterBlogDelete(b) ELSE blog_comments
  /\ blog_views' = IF deletes THEN ViewsAfterBlogDelete(b) ELSE blog_views
  /\ blog_analytics' = IF deletes THEN AnalyticsAfterBlogDelete(b) ELSE blog_analytics
  /\ public_likes' = IF deletes
                       THEN [pr \in {x \in DOMAIN public_likes : x[1] # b} |-> public_likes[pr]]
                       ELSE public_likes
  /\ public_comments' = IF deletes
                          THEN [x \in DOMAIN public_comments \ {b} |-> public_comments[x]]
                          ELSE public_comments

\* ------------------------------------------------------------------ Init
NoRequest == "none"

\* no badge rendered yet for engagement value e
NoBadge(e) == [engagement |-> e, page |-> [text |-> "none", icon |-> "none"],
               sidebar |-> "none"]

\* WriteBlog as mounted at /write: saving false, no error message shown, no
\* INSERT sent yet (sent and slug describe the last handleSave call)
NewWritePage == [saving |-> FALSE, location |-> "/write", errorMessage |-> "none",
                 sent |-> FALSE, slug |-> <<>>]

\* no rows displayed
NoData == [sortBy |-> "none", from |-> 0, to |-> -1]

\* useState defaults of CategoryPage (sortBy 'latest') and SearchResults
\* (sortBy 'relevance'), before the first effect has run; queries are the
\* requests issued so far, resolved the order in which responses arrived,
\* selected the page number the user picked last
NewResultsPage(page) ==
  [page |-> page, sortBy |-> IF page = "search" THEN "relevance" ELSE "latest",
   currentPage |-> 1, totalPages |-> 1, blogs |-> NoData, loading |-> TRUE,
   deps |-> <<>>, queries |-> <<>>, resolved |-> <<>>, selected |-> 0]

\* BlogDetail's useState defaults
\* (requests are the like requests in flight, likesAtLoad the number of the
\* viewer's rows in likes for the article when it was loaded)
NewDetailPage == [isLiked |-> FALSE, likeCount |-> 0, comments |-> 0, error |-> "none",
                  loading |-> TRUE, location |-> "/blog/:slug",
                  requests |-> <<>>, likesAtLoad |-> 0]

InitPages ==
  /\ adminBlogs = [d \in AdminPages |-> EmptyTable]
  /\ profileBlogs = [p \in ProfilePages |-> EmptyTable]
  /\ likeButton = [k \in LikeButtons |->
                     [blogId |-> 1, isLiked |-> FALSE, likeCount |-> 0,
                      loading |-> FALSE, request |-> NoRequest, toast |-> "none"]]
  /\ trending = [args |-> <<>>, rows |-> <<>>]
  /\ apiCall = [by |-> NULL, op |-> "none", id |-> 0, rows |-> 0, error |-> FALSE]
  /\ errorToast = [pg \in AdminPages \cup ProfilePages \cup WritePages |-> "none"]
  /\ publicPage = [page |-> "none", viewer |-> NULL, rows |-> {}]
  /\ commentsBox = [c \in CommentBoxes |->
                      [blogId |-> 1, comments |-> {}, replyingTo |-> NoParent, error |-> "none"]]
  /\ public_likes = EmptyTable
  /\ public_comments = EmptyTable
  /\ detailPage = NewDetailPage
  /\ badge = NoBadge(0)
  /\ writePage = [w \in WritePages |-> NewWritePage]
  /\ resultsPage = NewResultsPage("search")

Init ==
  /\ blogs = EmptyTable
  /\ nextBlogId = 1
  /\ blog_likes = EmptyTable
  /\ blog_comments = EmptyTable
  /\ blog_views = EmptyTable
  /\ blog_analytics = EmptyTable
  /\ InitPages

\* ------------------------------------------------------- WriteBlog page
\* insertData.status: 'submitted' is stored as pending
SavedStatus_Approved(status) == IF status = "draft" THEN "draft" ELSE "approved"

SavedStatus(status) == IF status = "draft" THEN "draft" ELSE "pending"

\* slug TEXT NOT NULL UNIQUE (constraint blogs_slug_key): the INSERT raises
\* 23505 when a row has the slug
SlugTaken(slug) == \E b \in DOMAIN blogs : blogs[b].slug = slug

WritePageAfterError_Navigates(page, message) ==
  [page EXCEPT !.saving = FALSE, !.location = "/profile?tab=blogs", !.errorMessage = message]

\* the catch and finally blocks of handleSave: the toast shows the message,
\* navigate is not reached, saving is reset
WritePageAfterError(page, message) ==
  [page EXCEPT !.saving = FALSE, !.location = "/write", !.errorMessage = message]

\* handleSave(status) with blogData.title = title (content is filled in):
\* without a title only the 'Missing required fields' toast is raised; else
\* one row is inserted and the page navigates to the profile, or the insert
\* error is caught and raised as the 'Error saving blog' toast. The error
\* object of the data API has no constraint field, so a 23505 gets the
\* message of the second branch. saving is reset in the finally block.
handleSave(w, status, title) ==
  LET slug == generateSlug(title)
  IN IF trim(title) = <<>>
       THEN /\ errorToast' = [errorToast EXCEPT ![w] = "Missing required fields"]
            /\ writePage' = [writePage EXCEPT ![w].location = "/write", ![w].sent = FALSE,
                                              ![w].slug = <<>>]
            /\ UNCHANGED <<tables, adminBlogs, profileBlogs, likeButton, trending, apiCall,
                           publicPage, commentsBox, public_likes, public_comments,
                           detailPage, badge, resultsPage>>
     ELSE IF SlugTaken(slug)
       THEN /\ errorToast' = [errorToast EXCEPT ![w] = "Error saving blog"]
            /\ writePage' = [writePage EXCEPT ![w] = WritePageAfterError(
                 [@ EXCEPT !.sent = TRUE, !.slug = slug],
                 "This blog post conflicts with an existing one. Please check your input.")]
            /\ UNCHANGED <<tables, adminBlogs, profileBlogs, likeButton, trending, apiCall,
                           publicPage, commentsBox, public_likes, public_comments,
                           detailPage, badge, resultsPage>>
     ELSE /\ nextBlogId <= MaxBlogs
          /\ blogs' = InsertBlog(pageProfile[w], slug,
                                 SavedStatus(status),
                                 IF status = "submitted" THEN TS ELSE NULL,
                                 NULL)
          /\ nextBlogId' = nextBlogId + 1
          /\ writePage' = [writePage EXCEPT ![w].saving = FALSE,
                                            ![w].location = "/profile?tab=blogs",
                                            ![w].sent = TRUE, ![w].slug = slug]
          /\ UNCHANGED <<blog_likes, blog_comments, blog_views, blog_analytics, adminBlogs,
                         profileBlogs, likeButton, trending, apiCall, errorToast, publicPage,
                         commentsBox, public_likes, public_comments, detailPage, badge, resultsPage>>

\* ---------------------------------------------------------- Profile page
\* the columns of a fetched row that the Profile page's buttons read
ProfileRow(row) == [status |-> row.status]

\* rows the author's list query returns
UserBlogs(p) ==
  LET ids == {b \in DOMAIN blogs : blogs[b].author_id = p /\ CanReadBlog(p, b)}
  IN [b \in ids |-> ProfileRow(blogs[b])]

fetchUserBlogs(pg) ==
  /\ profileBlogs' = [profileBlogs EXCEPT ![pg] = UserBlogs(pageProfile[pg])]
  /\ UNCHANGED <<tables, adminBlogs, likeButton, trending, apiCall, errorToast, publicPage, commentsBox, public_likes, public_comments, detailPage, badge, writePage, resultsPage>>

\* The Submit for Review button is rendered for rows the list shows as draft;
\* the UPDATE is keyed by id only; the list is refetched afterwards.
handleSubmitForReview(pg, b) ==
  /\ b \in DOMAIN profileBlogs[pg]
  /\ profileBlogs[pg][b].status = "draft"
  /\ blogs' = IF b \in DOMAIN blogs /\ CanWriteBlog(pageProfile[pg], b)
                THEN [blogs EXCEPT ![b].status = "pending", ![b].submitted_at = TS]
                ELSE blogs
  /\ profileBlogs' = [profileBlogs EXCEPT ![pg] =
                        LET ids == {x \in DOMAIN blogs' : blogs'[x].author_id = pageProfile[pg]}
                        IN [x \in ids |-> ProfileRow(blogs'[x])]]
  /\ UNCHANGED <<nextBlogId, blog_likes, blog_comments, blog_views, blog_analytics, adminBlogs, likeButton, trending, apiCall, errorToast, publicPage, commentsBox, public_likes, public_comments, detailPage, badge, writePage, resultsPage>>

ListAfterDelete_NoRefetch(pg, b, raises) ==
  [x \in DOMAIN profileBlogs[pg] \ {b} |-> profileBlogs[pg][x]]

\* the Profile list when handleDeleteBlog returns: the row is filtered out
\* before the request, and an error response is followed by fetchUserBlogs
ListAfterDelete(pg, b, raises) ==
  IF raises THEN UserBlogs(pageProfile[pg])
  ELSE [x \in DOMAIN profileBlogs[pg] \ {b} |-> profileBlogs[pg][x]]

\* The row is dropped from the local list first; a failed DELETE refetches.
handleDeleteBlog(pg, b) ==
  /\ b \in DOMAIN profileBlogs[pg]
  /\ LET raises == b \in DOMAIN blogs /\ CanWriteBlog(pageProfile[pg], b) /\ DeleteBlogRaises(b)
         deletes == b \in DOMAIN blogs /\ CanWriteBlog(pageProfile[pg], b) /\ ~DeleteBlogRaises(b)
     IN /\ DeleteFromBlogs(b, deletes)
        /\ profileBlogs' = [profileBlogs EXCEPT ![pg] = ListAfterDelete(pg, b, raises)]
        /\ errorToast' = IF raises THEN [errorToast EXCEPT ![pg] = "Error deleting blog"]
                         ELSE errorToast
  /\ UNCHANGED <<nextBlogId, adminBlogs, likeButton, trending, apiCall, publicPage,
                 commentsBox, detailPage, badge, writePage, resultsPage>>

\* ------------------------------------------------------- AdminDashboard
\* the columns of a fetched row that the dashboard's buttons read
AdminRow(row) == [status |-> row.status, is_hidden |-> row.is_hidden]

\* rows the dashboard's list query returns
AllBlogs(p) ==
  LET ids == {b \in DOMAIN blogs : CanReadBlog(p, b)}
  IN [b \in ids |-> AdminRow(blogs[b])]

fetchData(d) ==
  /\ is_admin(pageProfile[d])
  /\ adminBlogs' = [adminBlogs EXCEPT ![d] = AllBlogs(pageProfile[d])]
  /\ UNCHANGED <<tables, profileBlogs, likeButton, trending, apiCall, errorToast, publicPage, commentsBox, public_likes, public_comments, detailPage, badge, writePage, resultsPage>>

\* which buttons the dashboard renders for a row of its list
ActionButton(row, action) ==
  CASE action \in {"approve", "reject"} -> row.status = "pending"
    [] action = "hide" -> row.status = "approved" /\ ~row.is_hidden
    [] action = "unhide" -> row.status = "approved" /\ row.is_hidden
    [] action = "delete" -> TRUE

\* the row after the UPDATE or DELETE that handleBlogAction issues
BlogActionUpdate(row, action) ==
  CASE action = "approve" -> [row EXCEPT !.status = "approved", !.published_at = TS]
    [] action = "reject" -> [row EXCEPT !.status = "rejected", !.published_at = NULL]
    [] action = "hide" -> [row EXCEPT !.is_hidden = TRUE]
    [] action = "unhide" -> [row EXCEPT !.is_hidden = FALSE]

handleBlogAction(d, b, action) ==
  /\ b \in DOMAIN adminBlogs[d]
  /\ ActionButton(adminBlogs[d][b], action)
  /\ LET hit == b \in DOMAIN blogs /\ CanWriteBlog(pageProfile[d], b)
         error == action = "delete" /\ hit /\ DeleteBlogRaises(b)
     IN /\ IF action = "delete"
             THEN DeleteFromBlogs(b, hit /\ ~error)
             ELSE /\ blogs' = IF hit THEN [blogs EXCEPT ![b] = BlogActionUpdate(blogs[b], action)]
                              ELSE blogs
                  /\ UNCHANGED <<blog_likes, blog_comments, blog_views, blog_analytics,
                                 public_likes, public_comments>>
        /\ adminBlogs' = IF error THEN adminBlogs
                         ELSE [adminBlogs EXCEPT ![d] =
                                 [x \in DOMAIN blogs' |-> AdminRow(blogs'[x])]]
        \* title: `Error ${action}ing blog`
        /\ errorToast' = IF error THEN [errorToast EXCEPT ![d] = "Error deleteing blog"]
                         ELSE errorToast
  /\ UNCHANGED <<nextBlogId, profileBlogs, likeButton, trending, apiCall, publicPage,
                 commentsBox, detailPage, badge, writePage, resultsPage>>

\* ------------------------------------------------- blogs through the data API
\* column assignments of an UPDATE on blogs sent with a user's own session
BlogPatches == {[col |-> "status", val |-> "approved"],
                [col |-> "status", val |-> "rejected"],
                [col |-> "is_hidden", val |-> TRUE]}

\* UPDATE blogs SET <patch> WHERE id = b as profile p: the policy "Users can
\* update their own blogs" has a USING clause only (author or admin) and no
\* WITH CHECK, so every column of a row that passes USING can be assigned
updateBlogs(p, b, patch) ==
  /\ b \in DOMAIN blogs
  /\ blogs' = IF CanWriteBlog(p, b)
                THEN IF patch.col = "status"
                       THEN [blogs EXCEPT ![b].status = patch.val]
                       ELSE [blogs EXCEPT ![b].is_hidden = patch.val]
                ELSE blogs
  /\ apiCall' = [by |-> p, op |-> "update", id |-> b,
                 rows |-> IF CanWriteBlog(p, b) THEN 1 ELSE 0, error |-> FALSE]
  /\ UNCHANGED <<nextBlogId, blog_likes, blog_comments, blog_views, blog_analytics,
                 adminBlogs, profileBlogs, likeButton, trending, errorToast, publicPage, commentsBox, public_likes, public_comments, detailPage, badge, writePage, resultsPage>>

\* DELETE FROM blogs WHERE id = b as profile p: rows that do not pass the
\* USING clause of the DELETE policy are not seen by the statement, which
\* then removes nothing and reports no error
deleteBlogs(p, b) ==
  /\ b \in DOMAIN blogs
  /\ LET deletes == CanWriteBlog(p, b) /\ ~DeleteBlogRaises(b)
     IN /\ DeleteFromBlogs(b, deletes)
        /\ apiCall' = [by |-> p, op |-> "delete", id |-> b,
                       rows |-> IF deletes THEN 1 ELSE 0,
                       error |-> CanWriteBlog(p, b) /\ DeleteBlogRaises(b)]
  /\ UNCHANGED <<nextBlogId, adminBlogs, profileBlogs, likeButton, trending, errorToast,
                 publicPage, commentsBox, detailPage, badge, writePage, resultsPage>>

\* -------------------------------------------------------- public pages
\* signed-in visitors of the public pages: the author of the articles and
\* another user, who like an anonymous visitor is neither author nor admin
Viewers == {"u1", "u2"}

ListPages == {"home", "category", "search"}

HomeBlogs_NoStatus(v) == {b \in DOMAIN blogs : CanReadBlog(v, b)}

\* Home.fetchBlogs: the featured, latest and most-viewed lists are all
\* selected with .eq('status', 'approved'); rows pass the SELECT policy first
HomeBlogs(v) == {b \in DOMAIN blogs : CanReadBlog(v, b) /\ blogs[b].status = "approved"}

\* CategoryPage.fetchBlogs, for the category of every article
CategoryBlogs(v) == {b \in DOMAIN blogs : CanReadBlog(v, b) /\ blogs[b].status = "approved"}

\* SearchResults.performSearch, for a query that every article matches
SearchBlogs(v) == {b \in DOMAIN blogs : CanReadBlog(v, b) /\ blogs[b].status = "approved"}

fetchBlogs(page, v) ==
  /\ publicPage' = [page |-> page, viewer |-> v,
                    rows |-> CASE page = "home" -> HomeBlogs(v)
                               [] page = "category" -> CategoryBlogs(v)
                               [] page = "search" -> SearchBlogs(v)]
  /\ UNCHANGED <<tables, adminBlogs, profileBlogs, likeButton, trending, apiCall, errorToast, commentsBox, public_likes, public_comments, detailPage, badge, writePage, resultsPage>>

\* increment_blog_views(blog_id): view_count + 1 on the blogs row
BlogsAfterView(b) == [blogs EXCEPT ![b].view_count = @ + 1]

\* increment_blog_views(blog_id): INSERT (blog_id, views = 1) with the column
\* defaults, ON CONFLICT (blog_id, date) DO UPDATE SET views = views + 1
AnalyticsAfterView(b) ==
  UpsertAnalytics(blog_analytics,
                  [blog_id |-> b, date |-> CURRENT_DATE, views |-> 1, likes |-> 0, comments |-> 0],
                  [r \in DOMAIN blog_analytics |-> [r EXCEPT !.views = @ + 1]])

SingleApproved_AnyStatus(v, b) == b \in DOMAIN blogs /\ CanReadBlog(v, b)

\* .eq('slug', slug).eq('status', 'approved').single() returns a row
SingleApproved(v, b) ==
  b \in DOMAIN blogs /\ CanReadBlog(v, b) /\ blogs[b].status = "approved"

\* BlogDetail.fetchBlog for the slug of article b: select the approved row by
\* slug, show it and call increment_blog_views; without a row the page
\* raises its error toast and navigates home
fetchBlog(v, b) ==
  LET found == SingleApproved(v, b)
  IN /\ found => blogs[b].view_count < MaxViews
     /\ detailPage.requests = <<>>
     /\ publicPage' = [page |-> "detail", viewer |-> v, rows |-> IF found THEN {b} ELSE {}]
     /\ blogs' = IF found THEN BlogsAfterView(b) ELSE blogs
     /\ blog_analytics' = IF found THEN AnalyticsAfterView(b) ELSE blog_analytics
     \* fetchComments and fetchLikes of the same effect run while blog is
     \* still null and return at once, so the mounted page keeps its defaults
     /\ detailPage' = [NewDetailPage EXCEPT
                         !.error = IF found THEN "none" ELSE "Error loading blog",
                         !.location = IF found THEN @ ELSE "/",
                         !.loading = FALSE,
                         !.likesAtLoad = CountLikes(public_likes, b)]
     /\ UNCHANGED <<nextBlogId, blog_likes, blog_comments, blog_views,
                    adminBlogs, profileBlogs, likeButton, trending, apiCall, errorToast,
                    commentsBox, public_likes, public_comments, badge, writePage, resultsPage>>

\* BlogDetail.handleLike by the signed-in viewer of the loaded article, up to
\* its await: the request is chosen from the isLiked value of the current
\* render; the button is not disabled while a request is in flight
BlogDetail_handleLike ==
  /\ publicPage.page = "detail" /\ publicPage.rows # {}
  /\ Len(detailPage.requests) < MaxInFlight
  /\ detailPage.likeCount > -MaxLikes
  /\ detailPage' = [detailPage EXCEPT
                      !.requests = Append(@, IF detailPage.isLiked THEN "delete" ELSE "insert")]
  /\ UNCHANGED <<tables, adminBlogs, profileBlogs, likeButton, trending, apiCall,
                 errorToast, publicPage, commentsBox, public_likes, public_comments, badge,
                 writePage, resultsPage>>

DetailAfterLikeError_Flipped(page) ==
  [page EXCEPT !.error = "Error updating like", !.isLiked = ~@]

\* the catch block of BlogDetail.handleLike: the toast only
DetailAfterLikeError(page) == [page EXCEPT !.error = "Error updating like"]

\* the sequence without its i-th element
RemoveAt(seq, i) == SubSeq(seq, 1, i - 1) \o SubSeq(seq, i + 1, Len(seq))

\* the backend executes request i and handleLike resumes after its await:
\* the INSERT is rejected by the foreign key to blogs or by
\* UNIQUE(blog_id, user_id) on likes; the DELETE reports no error, whether
\* or not it finds a row
BlogDetail_handleLikeResume(i) ==
  LET u == publicPage.viewer
      b == CHOOSE x \in publicPage.rows : TRUE
      pr == <<b, u>>
      req == detailPage.requests[i]
      error == req = "insert" /\ (b \notin DOMAIN blogs \/ pr \in DOMAIN public_likes)
      rest == [detailPage EXCEPT !.requests = RemoveAt(@, i)]
  IN /\ publicPage.page = "detail" /\ publicPage.rows # {}
     /\ i \in 1..Len(detailPage.requests)
     /\ public_likes' =
          IF error THEN public_likes
          ELSE IF req = "delete"
            THEN [x \in DOMAIN public_likes \ {pr} |-> public_likes[x]]
            ELSE [x \in DOMAIN public_likes \cup {pr} |-> IF x = pr THEN 1 ELSE public_likes[x]]
     /\ detailPage' =
          IF error THEN DetailAfterLikeError(rest)
          ELSE IF req = "delete"
            THEN [rest EXCEPT !.isLiked = FALSE, !.likeCount = @ - 1]
            ELSE [rest EXCEPT !.isLiked = TRUE, !.likeCount = @ + 1]
     /\ UNCHANGED <<tables, adminBlogs, profileBlogs, likeButton, trending, apiCall,
                    errorToast, publicPage, commentsBox, public_comments, badge, writePage,
                    resultsPage>>

\* BlogDetail.handleComment by the signed-in viewer: insert into comments,
\* then fetchComments for the loaded article
BlogDetail_handleComment ==
  LET b == CHOOSE x \in publicPage.rows : TRUE
      n == IF b \in DOMAIN public_comments THEN public_comments[b] ELSE 0
      error == b \notin DOMAIN blogs
  IN /\ publicPage.page = "detail" /\ publicPage.rows # {}
     /\ n < MaxComments
     /\ public_comments' =
          IF error THEN public_comments
          ELSE [x \in DOMAIN public_comments \cup {b} |-> IF x = b THEN n + 1 ELSE public_comments[x]]
     /\ detailPage' = IF error THEN [detailPage EXCEPT !.error = "Error posting comment"]
                      ELSE [detailPage EXCEPT !.comments = n + 1]
     /\ UNCHANGED <<tables, adminBlogs, profileBlogs, likeButton, trending, apiCall,
                    errorToast, publicPage, commentsBox, public_likes, badge, writePage, resultsPage>>

\* ------------------------------------------------------------- Comments
\* rows of blog_comments with and without a parent
TopLevel(comments) == {c \in DOMAIN comments : comments[c].parent_id = NoParent}
Replies(comments) == {c \in DOMAIN comments : comments[c].parent_id # NoParent}

\* blog_comments after INSERT of one row; is_approved DEFAULT true
CommentsAfterInsert(b, author, parent) ==
  LET id == Cardinality(DOMAIN blog_comments) + 1
  IN [c \in DOMAIN blog_comments \cup {id} |->
        IF c = id THEN [blog_id |-> b, author_id |-> author, parent_id |-> parent,
                        is_approved |-> TRUE]
        ELSE blog_comments[c]]

\* the foreign keys of blog_comments: blog_id to blogs, parent_id to
\* blog_comments(id); nothing relates the parent's blog_id or parent_id to
\* those of the new row
InsertCommentRaises(b, parent) ==
  \/ b \notin DOMAIN blogs
  \/ parent # NoParent /\ parent \notin DOMAIN blog_comments

\* fetchComments selects the top-level comments with .eq('parent_id', null),
\* which is sent as parent_id=eq.null: a comparison of the uuid column with
\* the literal 'null', not IS NULL. The request is rejected, fetchComments
\* takes its catch branch and setComments is not reached.
TopLevelQueryRaises == TRUE

\* the Comments component rendered with blogId = b: the effect runs fetchComments
fetchComments(c, b) ==
  /\ commentsBox' = [commentsBox EXCEPT
                       ![c].blogId = b,
                       ![c].comments = IF TopLevelQueryRaises THEN @
                                       ELSE {x \in TopLevel(blog_comments) :
                                               /\ blog_comments[x].blog_id = b
                                               /\ blog_comments[x].is_approved},
                       ![c].error = IF TopLevelQueryRaises THEN "Error loading comments" ELSE @]
  /\ UNCHANGED <<tables, adminBlogs, profileBlogs, likeButton, trending, apiCall,
                 errorToast, publicPage, public_likes, public_comments, detailPage, badge, writePage, resultsPage>>

\* handleSubmitComment: insert a top-level comment on blogId, then fetchComments
handleSubmitComment(c) ==
  LET b == commentsBox[c].blogId
      error == InsertCommentRaises(b, NoParent)
      comments == IF error THEN blog_comments
                  ELSE CommentsAfterInsert(b, pageProfile[c], NoParent)
  IN /\ Cardinality(TopLevel(blog_comments)) < MaxComments
     /\ blog_comments' = comments
     /\ blog_analytics' = IF error THEN blog_analytics
                          ELSE update_blog_analytics(b, blog_likes, comments, blog_views)
     /\ commentsBox' = [commentsBox EXCEPT ![c].error =
                          IF error THEN "Error posting comment"
                          ELSE IF TopLevelQueryRaises THEN "Error loading comments" ELSE @]
     /\ UNCHANGED <<blogs, nextBlogId, blog_likes, blog_views, adminBlogs, profileBlogs,
                    likeButton, trending, apiCall, errorToast, publicPage, public_likes, public_comments, detailPage, badge, writePage, resultsPage>>

\* INSERT INTO blog_comments (blog_id, author_id, parent_id) sent by profile p
\* with author_id = p, which is all that the INSERT policy checks
insertComments(p, b, parent) ==
  LET error == InsertCommentRaises(b, parent)
      comments == IF error THEN blog_comments ELSE CommentsAfterInsert(b, p, parent)
  IN /\ IF parent = NoParent THEN Cardinality(TopLevel(blog_comments)) < MaxComments
                         ELSE Cardinality(Replies(blog_comments)) < MaxReplies
     /\ blog_comments' = comments
     /\ blog_analytics' = IF error THEN blog_analytics
                          ELSE update_blog_analytics(b, blog_likes, comments, blog_views)
     /\ apiCall' = [by |-> p, op |-> "insert comment", id |-> b,
                    rows |-> IF error THEN 0 ELSE 1, error |-> error]
     /\ UNCHANGED <<blogs, nextBlogId, blog_likes, blog_views, adminBlogs, profileBlogs,
                    likeButton, trending, errorToast, publicPage, commentsBox, public_likes, public_comments, detailPage, badge, writePage, resultsPage>>

\* DELETE FROM blog_comments WHERE id = c sent by profile p: the row passes
\* the DELETE policy for its author or an admin, and its AFTER DELETE row
\* trigger then runs update_blog_analytics with NEW unassigned
deleteComments(p, c) ==
  LET hit == c \in DOMAIN blog_comments /\ (blog_comments[c].author_id = p \/ is_admin(p))
      error == hit /\ TriggerRaises(NULL)
  IN /\ c \in DOMAIN blog_comments
     /\ blog_comments' = IF hit /\ ~error
                           THEN [x \in DOMAIN blog_comments \ {c} |-> blog_comments[x]]
                           ELSE blog_comments
     /\ apiCall' = [by |-> p, op |-> "delete comment", id |-> c,
                    rows |-> IF hit /\ ~error THEN 1 ELSE 0, error |-> error]
     /\ UNCHANGED <<blogs, nextBlogId, blog_likes, blog_views, blog_analytics, adminBlogs,
                    profileBlogs, likeButton, trending, errorToast, publicPage, commentsBox, public_likes, public_comments, detailPage, badge, writePage, resultsPage>>

\* ----------------------------------------------------------- LikeButton
UniqueViolation_Off(b, u) == FALSE

\* UNIQUE(blog_id, user_id) on blog_likes
UniqueViolation(b, u) == <<b, u>> \in DOMAIN blog_likes

\* INSERT INTO blog_likes (blog_id, user_id) is rejected by the foreign key
\* to blogs or by the unique constraint
InsertLikeRaises(b, u) == b \notin DOMAIN blogs \/ UniqueViolation(b, u)

\* blog_likes after one more row for <<b, u>>
LikesAfterInsert(b, u) ==
  [pr \in DOMAIN blog_likes \cup {<<b, u>>} |->
     IF pr = <<b, u>>
       THEN (IF pr \in DOMAIN blog_likes THEN blog_likes[pr] + 1 ELSE 1)
       ELSE blog_likes[pr]]

\* DELETE FROM blog_likes WHERE blog_id = b AND user_id = u fires the
\* AFTER DELETE row trigger for every row it removes
DeleteLikeRaises(b, u) == <<b, u>> \in DOMAIN blog_likes /\ TriggerRaises(NULL)

LikesAfterDelete(b, u) ==
  [pr \in DOMAIN blog_likes \ {<<b, u>>} |-> blog_likes[pr]]

\* checkIfLiked: .single() yields a row only when exactly one row matches
checkIfLiked(k) ==
  LET pr == <<likeButton[k].blogId, pageProfile[k]>>
  IN /\ likeButton' = [likeButton EXCEPT ![k].isLiked =
                         pr \in DOMAIN blog_likes /\ blog_likes[pr] = 1]
     /\ UNCHANGED <<tables, adminBlogs, profileBlogs, trending, apiCall, errorToast, publicPage, commentsBox, public_likes, public_comments, detailPage, badge, writePage, resultsPage>>

\* handleLike up to its await: the button is disabled while loading, and the
\* request is chosen from the isLiked value of the current render
handleLike(k) ==
  /\ ~likeButton[k].loading
  /\ likeButton' = [likeButton EXCEPT
                      ![k].loading = TRUE,
                      ![k].request = IF likeButton[k].isLiked THEN "delete" ELSE "insert"]
  /\ UNCHANGED <<tables, adminBlogs, profileBlogs, trending, apiCall, errorToast, publicPage, commentsBox, public_likes, public_comments, detailPage, badge, writePage, resultsPage>>

\* the backend executes the request and handleLike resumes after its await
handleLikeResume(k) ==
  LET b == likeButton[k].blogId
      u == pageProfile[k]
      req == likeButton[k].request
      error == IF req = "delete" THEN DeleteLikeRaises(b, u) ELSE InsertLikeRaises(b, u)
      likes == IF error THEN blog_likes
               ELSE IF req = "delete" THEN LikesAfterDelete(b, u)
               ELSE LikesAfterInsert(b, u)
  IN /\ req # NoRequest
     /\ blog_likes' = likes
     /\ blog_analytics' = IF ~error /\ req = "insert"
                            THEN update_blog_analytics(b, likes, blog_comments, blog_views)
                            ELSE blog_analytics
     /\ likeButton' = [likeButton EXCEPT ![k] =
          IF error
            THEN [@ EXCEPT !.loading = FALSE, !.request = NoRequest,
                           !.toast = "Error updating like"]
            ELSE IF req = "delete"
              THEN [@ EXCEPT !.loading = FALSE, !.request = NoRequest,
                             !.isLiked = FALSE, !.likeCount = @ - 1,
                             !.toast = "Like removed"]
              ELSE [@ EXCEPT !.loading = FALSE, !.request = NoRequest,
                             !.isLiked = TRUE, !.likeCount = @ + 1,
                             !.toast = "Blog liked!"]]
     /\ UNCHANGED <<blogs, nextBlogId, blog_comments, blog_views,
                    adminBlogs, profileBlogs, trending, apiCall, errorToast, publicPage, commentsBox, public_likes, public_comments, detailPage, badge, writePage, resultsPage>>

\* an approved, visible article by u1 on which the like buttons are mounted
PublishedRow(author, created) ==
  [author_id |-> author, slug |-> generateSlug(TitleOf(created)),
   status |-> "approved", is_hidden |-> FALSE,
   published_at |-> TS, submitted_at |-> TS, created_at |-> created, view_count |-> 0]

InitLikes ==
  /\ blogs = [b \in {1} |-> PublishedRow("u1", 1)]
  /\ nextBlogId = 2
  /\ blog_likes = EmptyTable
  /\ blog_comments = EmptyTable
  /\ blog_views = EmptyTable
  /\ blog_analytics = EmptyTable
  /\ InitPages

NextLikes ==
  \/ \E k \in LikeButtons : checkIfLiked(k)
  \/ \E k \in LikeButtons : handleLike(k)
  \/ \E k \in LikeButtons : handleLikeResume(k)

SpecLikes == InitLikes /\ [][NextLikes]_vars

\* ---------------------------------------------------- get_trending_blogs
TrendingWhere_NoHidden(row) ==
  row.status = "approved" /\ row.published_at # NULL

\* WHERE b.status = 'approved' AND b.is_hidden = false AND b.published_at IS NOT NULL
TrendingWhere(row) ==
  row.status = "approved" /\ row.is_hidden = FALSE /\ row.published_at # NULL

total_engagement_WithViews(likes_count, comments_count, views_today) ==
  likes_count + comments_count + views_today

\* COALESCE(bl.likes_count, 0) + COALESCE(bc.comments_count, 0)
total_engagement(likes_count, comments_count, views_today) ==
  likes_count + comments_count

\* the SELECT list for blog b (the computed columns and the sort keys)
TrendingRow(b) ==
  LET likes_count == CountLikes(blog_likes, b)
      comments_count == CountApprovedComments(blog_comments, b)
      views_today == CountViewsToday(blog_views, b)
  IN [blog_id |-> b,
      total_engagement |-> total_engagement(likes_count, comments_count, views_today),
      views_today |-> views_today,
      likes_count |-> likes_count,
      comments_count |-> comments_count,
      created_at |-> blogs[b].created_at]

OrderBefore_NoViews(r1, r2) ==
  \/ r1.total_engagement > r2.total_engagement
  \/ /\ r1.total_engagement = r2.total_engagement
     /\ r1.created_at > r2.created_at

\* ORDER BY total_engagement DESC, views_today DESC, b.created_at DESC
OrderBefore(r1, r2) ==
  \/ r1.total_engagement > r2.total_engagement
  \/ /\ r1.total_engagement = r2.total_engagement
     /\ r1.views_today > r2.views_today
  \/ /\ r1.total_engagement = r2.total_engagement
     /\ r1.views_today = r2.views_today
     /\ r1.created_at > r2.created_at

\* the rows of S in ORDER BY order (rows equal in all three keys in any order)
RECURSIVE OrderBy(_)
OrderBy(S) ==
  IF S = {} THEN <<>>
  ELSE LET first == CHOOSE r \in S : \A o \in S : ~OrderBefore(o, r)
       IN <<first>> \o OrderBy(S \ {first})

Limit_OneMore(rows, limit_count) ==
  SubSeq(rows, 1, IF limit_count + 1 < Len(rows) THEN limit_count + 1 ELSE Len(rows))

\* LIMIT limit_count
Limit(rows, limit_count) ==
  SubSeq(rows, 1, IF limit_count < Len(rows) THEN limit_count ELSE Len(rows))

get_trending_blogs(limit_count) ==
  Limit(OrderBy({TrendingRow(b) : b \in {x \in DOMAIN blogs : TrendingWhere(blogs[x])}}),
        limit_count)

\* supabase.rpc('get_trending_blogs', args): args is the argument list; when
\* limit_count is left out the function's default applies
TrendArgs == {<<>>, <<1>>, <<5>>}

fetchTrendingBlogs(args) ==
  /\ trending' = [args |-> args,
                  rows |-> get_trending_blogs(IF args = <<>> THEN DefaultLimit ELSE args[1])]
  /\ UNCHANGED <<tables, adminBlogs, profileBlogs, likeButton, apiCall, errorToast, publicPage, commentsBox, public_likes, public_comments, detailPage, badge, writePage, resultsPage>>

\* Tables at the time of a trending call: TrendBlogs articles that are
\* approved and visible, approved and hidden, or pending, with up to
\* MaxLikes like rows, MaxComments comment rows (approved or not) and
\* MaxViews view rows of the current date.
PendingRow(author, created) ==
  [author_id |-> author, slug |-> generateSlug(TitleOf(created)),
   status |-> "pending", is_hidden |-> FALSE,
   published_at |-> NULL, submitted_at |-> TS, created_at |-> created, view_count |-> 0]

HiddenRow(author, created) ==
  [PublishedRow(author, created) EXCEPT !.is_hidden = TRUE]

InitTrend ==
  /\ \E kind \in [1..TrendBlogs -> {"published", "hidden", "pending"}] :
       blogs = [b \in 1..TrendBlogs |->
                  CASE kind[b] = "published" -> PublishedRow("u1", b)
                    [] kind[b] = "hidden" -> HiddenRow("u1", b)
                    [] OTHER -> PendingRow("u1", b)]
  /\ nextBlogId = TrendBlogs + 1
  /\ \E S \in SUBSET ((1..TrendBlogs) \X {"u1", "u2"}) :
       /\ Cardinality(S) <= MaxLikes
       /\ blog_likes = [pr \in S |-> 1]
  /\ \E n \in 0..MaxComments :
       blog_comments \in [1..n -> [blog_id : 1..TrendBlogs, author_id : {"u2"},
                                   parent_id : {NoParent}, is_approved : BOOLEAN]]
  /\ \E v \in [1..TrendBlogs -> 0..MaxViews] :
       /\ SumOver(v, 1..TrendBlogs) <= MaxViews
       /\ blog_views = v
  /\ blog_analytics =
       \* the row each article's last like, comment or view trigger left
       LET touched == {b \in 1..TrendBlogs :
                         \/ CountLikes(blog_likes, b) > 0
                         \/ CountViewsToday(blog_views, b) > 0
                         \/ \E c \in DOMAIN blog_comments : blog_comments[c].blog_id = b}
       IN [r \in {[blog_id |-> b, date |-> CURRENT_DATE,
                    views |-> CountViewsToday(blog_views, b),
                    likes |-> CountLikes(blog_likes, b),
                    comments |-> CountApprovedComments(blog_comments, b)] : b \in touched} |-> 1]
  /\ InitPages

NextTrend == \E args \in TrendArgs : fetchTrendingBlogs(args)

SpecTrend == InitTrend /\ [][NextTrend]_vars

\* --------------------------------------------------------------- badges
Page_getEngagementBadge_Above(engagement) ==
  IF engagement > 50 THEN [text |-> "Viral", icon |-> "Flame"]
  ELSE IF engagement > 20 THEN [text |-> "Trending", icon |-> "Rocket"]
  ELSE IF engagement > 10 THEN [text |-> "Popular", icon |-> "Star"]
  ELSE [text |-> "New", icon |-> "Zap"]

\* getEngagementBadge of the trending page (the text without its emoji)
Page_getEngagementBadge(engagement) ==
  IF engagement >= 50 THEN [text |-> "Viral", icon |-> "Flame"]
  ELSE IF engagement >= 20 THEN [text |-> "Trending", icon |-> "Rocket"]
  ELSE IF engagement >= 10 THEN [text |-> "Popular", icon |-> "Star"]
  ELSE [text |-> "New", icon |-> "Zap"]

\* getEngagementBadge of the home sidebar (the text without its emoji)
Sidebar_getEngagementBadge(engagement) ==
  IF engagement >= 50 THEN "Viral"
  ELSE IF engagement >= 20 THEN "Trending"
  ELSE IF engagement >= 10 THEN "Popular"
  ELSE "New"

\* the trending page renders the badge of a row
renderPageBadge ==
  /\ badge' = [badge EXCEPT !.page = Page_getEngagementBadge(badge.engagement)]
  /\ UNCHANGED <<tables, adminBlogs, profileBlogs, likeButton, trending, apiCall, errorToast,
                 publicPage, commentsBox, public_likes, public_comments, detailPage, writePage, resultsPage>>

\* the home sidebar renders the badge of a row
renderSidebarBadge ==
  /\ badge' = [badge EXCEPT !.sidebar = Sidebar_getEngagementBadge(badge.engagement)]
  /\ UNCHANGED <<tables, adminBlogs, profileBlogs, likeButton, trending, apiCall, errorToast,
                 publicPage, commentsBox, public_likes, public_comments, detailPage, writePage, resultsPage>>

\* a trending row with any total_engagement from 0 to MaxEngagement
InitBadge ==
  /\ blogs = EmptyTable
  /\ nextBlogId = 1
  /\ blog_likes = EmptyTable
  /\ blog_comments = EmptyTable
  /\ blog_views = EmptyTable
  /\ blog_analytics = EmptyTable
  /\ adminBlogs = [d \in AdminPages |-> EmptyTable]
  /\ profileBlogs = [p \in ProfilePages |-> EmptyTable]
  /\ likeButton = [k \in LikeButtons |->
                     [blogId |-> 1, isLiked |-> FALSE, likeCount |-> 0,
                      loading |-> FALSE, request |-> NoRequest, toast |-> "none"]]
  /\ trending = [args |-> <<>>, rows |-> <<>>]
  /\ apiCall = [by |-> NULL, op |-> "none", id |-> 0, rows |-> 0, error |-> FALSE]
  /\ errorToast = [pg \in AdminPages \cup ProfilePages \cup WritePages |-> "none"]
  /\ publicPage = [page |-> "none", viewer |-> NULL, rows |-> {}]
  /\ commentsBox = [c \in CommentBoxes |->
                      [blogId |-> 1, comments |-> {}, replyingTo |-> NoParent, error |-> "none"]]
  /\ public_likes = EmptyTable
  /\ public_comments = EmptyTable
  /\ detailPage = NewDetailPage
  /\ \E e \in 0..MaxEngagement : badge = NoBadge(e)
  /\ writePage = [w \in WritePages |-> NewWritePage]
  /\ resultsPage = NewResultsPage("search")

NextBadge == renderPageBadge \/ renderSidebarBadge

SpecBadge == InitBadge /\ [][NextBadge]_vars

\* --------------------------------------------- category and search pages
ResultPages == {"category", "search"}

\* values of the sort select that are used here
SortValues(page) == IF page = "search" THEN {"relevance", "latest"} ELSE {"latest", "trending"}

\* count of the query: the approved articles (every article matches)
ResultCount == Cardinality(SearchBlogs("u2"))

\* rows from..to of the result set in the order of q.sortBy, as
\* query.range(from, to) returns them
QueryData(q) ==
  LET from == (q.page - 1) * blogsPerPage
      to == from + blogsPerPage - 1
  IN [sortBy |-> q.sortBy, from |-> from,
      to |-> IF to < ResultCount THEN to ELSE ResultCount - 1]

ResponseApplies_LatestOnly(r, i) == i = Len(r.queries)

\* whether the response of query i is put on display: nothing compares it
\* with the latest request, and no request is aborted
ResponseApplies(r, i) == TRUE

\* the effect on [slug or query, sortBy, currentPage] runs after a render
\* whose values differ from those of its last run: it calls fetchBlogs or
\* performSearch with the values of that render; SearchResults first calls
\* setCurrentPage(1)
resultsEffect ==
  LET r == resultsPage
  IN /\ r.deps # <<r.sortBy, r.currentPage>>
     /\ Len(r.queries) < MaxQueries
     /\ resultsPage' = [r EXCEPT
                          !.deps = <<r.sortBy, r.currentPage>>,
                          !.queries = Append(@, [sortBy |-> r.sortBy, page |-> r.currentPage,
                                                 resolved |-> FALSE]),
                          !.loading = TRUE,
                          !.currentPage = IF r.page = "search" THEN 1 ELSE @]
     /\ UNCHANGED <<tables, adminBlogs, profileBlogs, likeButton, trending, apiCall, errorToast,
                    publicPage, commentsBox, public_likes, public_comments, detailPage, badge,
                    writePage>>

\* the response of query i arrives: setBlogs, setTotalPages, setLoading(false)
resolveQuery(i) ==
  LET r == resultsPage
  IN /\ i \in 1..Len(r.queries)
     /\ ~r.queries[i].resolved
     /\ resultsPage' = [r EXCEPT
                          !.queries[i].resolved = TRUE,
                          !.resolved = Append(@, i),
                          !.blogs = IF ResponseApplies(r, i) THEN QueryData(r.queries[i]) ELSE @,
                          !.totalPages = IF ResponseApplies(r, i)
                                           THEN (ResultCount + blogsPerPage - 1) \div blogsPerPage
                                           ELSE @,
                          !.loading = FALSE]
     /\ UNCHANGED <<tables, adminBlogs, profileBlogs, likeButton, trending, apiCall, errorToast,
                    publicPage, commentsBox, public_likes, public_comments, detailPage, badge,
                    writePage>>

\* the page buttons are rendered when not loading, with rows on display and
\* totalPages > 1; effects of earlier renders have run before a click
handlePageChange(p) ==
  LET r == resultsPage
  IN /\ r.deps = <<r.sortBy, r.currentPage>>
     /\ ~r.loading /\ r.blogs.to >= r.blogs.from /\ r.totalPages > 1
     /\ p \in 1..r.totalPages
     /\ resultsPage' = [r EXCEPT !.currentPage = p, !.selected = p]
     /\ UNCHANGED <<tables, adminBlogs, profileBlogs, likeButton, trending, apiCall, errorToast,
                    publicPage, commentsBox, public_likes, public_comments, detailPage, badge,
                    writePage>>

\* onValueChange of the sort select
setSortBy(sort) ==
  LET r == resultsPage
  IN /\ r.deps = <<r.sortBy, r.currentPage>>
     /\ sort \in SortValues(r.page) \ {r.sortBy}
     /\ resultsPage' = [r EXCEPT !.sortBy = sort, !.selected = 0]
     /\ UNCHANGED <<tables, adminBlogs, profileBlogs, likeButton, trending, apiCall, errorToast,
                    publicPage, commentsBox, public_likes, public_comments, detailPage, badge,
                    writePage>>

\* one of the two pages opened on a table of approved articles by u1
InitResults ==
  /\ \E n \in {k \in 0..MaxResults : k % blogsPerPage <= 1} :
       /\ blogs = [b \in 1..n |-> PublishedRow("u1", b)]
       /\ nextBlogId = n + 1
  /\ blog_likes = EmptyTable
  /\ blog_comments = EmptyTable
  /\ blog_views = EmptyTable
  /\ blog_analytics = EmptyTable
  /\ adminBlogs = [d \in AdminPages |-> EmptyTable]
  /\ profileBlogs = [p \in ProfilePages |-> EmptyTable]
  /\ likeButton = [k \in LikeButtons |->
                     [blogId |-> 1, isLiked |-> FALSE, likeCount |-> 0,
                      loading |-> FALSE, request |-> NoRequest, toast |-> "none"]]
  /\ trending = [args |-> <<>>, rows |-> <<>>]
  /\ apiCall = [by |-> NULL, op |-> "none", id |-> 0, rows |-> 0, error |-> FALSE]
  /\ errorToast = [pg \in AdminPages \cup ProfilePages \cup WritePages |-> "none"]
  /\ publicPage = [page |-> "none", viewer |-> NULL, rows |-> {}]
  /\ commentsBox = [c \in CommentBoxes |->
                      [blogId |-> 1, comments |-> {}, replyingTo |-> NoParent, error |-> "none"]]
  /\ public_likes = EmptyTable
  /\ public_comments = EmptyTable
  /\ detailPage = NewDetailPage
  /\ badge = NoBadge(0)
  /\ writePage = [w \in WritePages |-> NewWritePage]
  /\ \E page \in ResultPages : resultsPage = NewResultsPage(page)

NextResults ==
  \/ resultsEffect
  \/ \E i \in 1..MaxQueries : resolveQuery(i)
  \/ \E p \in 1..((MaxResults + blogsPerPage - 1) \div blogsPerPage) : handlePageChange(p)
  \/ \E sort \in {"relevance", "latest", "trending"} : setSortBy(sort)

SpecResults == InitResults /\ [][NextResults]_vars

\* ------------------------------------------------------------------ Next
\* The WriteBlog page with any title, and the author's profile page
NextWrite ==
  \/ \E w \in WritePages, st \in {"draft", "submitted"}, title \in Titles :
       handleSave(w, st, title)
  \/ \E b \in BlogIds : handleSubmitForReview("p1", b)
  \/ \E b \in BlogIds : handleDeleteBlog("p1", b)
  \/ fetchUserBlogs("p1")

SpecWrite == Init /\ [][NextWrite]_vars

\* Two dashboards (two admins) and one profile page
Next ==
  \/ \E w \in WritePages, st \in {"draft", "submitted"} :
       handleSave(w, st, TitleOf(nextBlogId))
  \/ \E b \in BlogIds : handleSubmitForReview("p1", b)
  \/ \E b \in BlogIds : handleDeleteBlog("p1", b)
  \/ fetchUserBlogs("p1")
  \/ \E d \in AdminPages : fetchData(d)
  \/ \E d \in AdminPages, b \in BlogIds, a \in BlogActions : handleBlogAction(d, b, a)

Spec == Init /\ [][Next]_vars

\* One dashboard and the author's profile page open in two tabs
NextTabs ==
  \/ \E w \in WritePages, st \in {"draft", "submitted"} :
       handleSave(w, st, TitleOf(nextBlogId))
  \/ \E pg \in ProfilePages, b \in BlogIds : handleSubmitForReview(pg, b)
  \/ \E pg \in ProfilePages, b \in BlogIds : handleDeleteBlog(pg, b)
  \/ \E pg \in ProfilePages : fetchUserBlogs(pg)
  \/ fetchData("d1")
  \/ \E b \in BlogIds, a \in BlogActions : handleBlogAction("d1", b, a)

SpecTabs == Init /\ [][NextTabs]_vars

\* One admin's dashboard, the author's profile page, and the UPDATE and
\* DELETE requests that signed-in non-admin users send to the data API
NextApi ==
  \/ \E w \in WritePages, st \in {"draft", "submitted"} :
       handleSave(w, st, TitleOf(nextBlogId))
  \/ \E d \in {"d1", "d3"} : fetchData(d)
  \/ \E d \in {"d1", "d3"}, b \in BlogIds, a \in BlogActions : handleBlogAction(d, b, a)
  \/ fetchUserBlogs("p1")
  \/ \E b \in BlogIds : handleDeleteBlog("p1", b)
  \/ \E p \in {"u1", "u2"}, b \in BlogIds, patch \in BlogPatches : updateBlogs(p, b, patch)
  \/ \E p \in {"u1", "u2"}, b \in BlogIds : deleteBlogs(p, b)

SpecApi == Init /\ [][NextApi]_vars

\* A published article with its like buttons, its author's profile page and
\* an admin's dashboard
NextCascade ==
  \/ NextLikes
  \/ fetchUserBlogs("p1")
  \/ \E b \in BlogIds : handleDeleteBlog("p1", b)
  \/ fetchData("d1")
  \/ \E b \in BlogIds, a \in BlogActions : handleBlogAction("d1", b, a)

SpecCascade == InitLikes /\ [][NextCascade]_vars

\* Writing, one admin's moderation, and loads of the public pages
NextPublic ==
  \/ \E w \in WritePages, st \in {"draft", "submitted"} :
       handleSave(w, st, TitleOf(nextBlogId))
  \/ fetchData("d1")
  \/ \E b \in BlogIds, a \in BlogActions : handleBlogAction("d1", b, a)
  \/ \E page \in ListPages, v \in Viewers : fetchBlogs(page, v)
  \/ \E v \in Viewers, b \in BlogIds : fetchBlog(v, b)
  \/ \E args \in TrendArgs : fetchTrendingBlogs(args)

SpecPublic == Init /\ [][NextPublic]_vars

\* A published article with page views, likes and unlikes by two users, and
\* comment insertions and deletions
NextAnalytics ==
  \/ \E k \in {"k1", "k3"} : handleLike(k)
  \/ \E k \in {"k1", "k3"} : handleLikeResume(k)
  \/ \E b \in BlogIds : fetchBlog("u2", b)
  \/ \E c \in CommentBoxes, b \in BlogIds : fetchComments(c, b)
  \/ \E c \in CommentBoxes : handleSubmitComment(c)
  \/ \E b \in BlogIds, parent \in 0..MaxComments : insertComments("u1", b, parent)
  \/ \E c \in 1..(MaxComments + MaxReplies) : deleteComments("u1", c)

SpecAnalytics == InitLikes /\ [][NextAnalytics]_vars

\* Two published articles, the Comments component of a signed-in user, and
\* the comment rows that signed-in users insert and delete
InitComments ==
  /\ blogs = [b \in {1, 2} |-> PublishedRow("u1", b)]
  /\ nextBlogId = 3
  /\ blog_likes = EmptyTable
  /\ blog_comments = EmptyTable
  /\ blog_views = EmptyTable
  /\ blog_analytics = EmptyTable
  /\ InitPages

NextComments ==
  \/ \E c \in CommentBoxes, b \in {1, 2} : fetchComments(c, b)
  \/ \E c \in CommentBoxes : handleSubmitComment(c)
  \/ \E p \in Viewers, b \in {1, 2}, parent \in 0..(MaxComments + MaxReplies) :
       insertComments(p, b, parent)
  \/ \E p \in Viewers, c \in 1..(MaxComments + MaxReplies) : deleteComments(p, c)

SpecComments == InitComments /\ [][NextComments]_vars

\* A published article, its detail page with the like and comment forms, a
\* LikeButton on the same article, and trending calls
NextDetail ==
  \/ \E v \in Viewers, b \in BlogIds : fetchBlog(v, b)
  \/ BlogDetail_handleLike
  \/ \E i \in 1..MaxInFlight : BlogDetail_handleLikeResume(i)
  \/ BlogDetail_handleComment
  \/ handleLike("k1")
  \/ handleLikeResume("k1")
  \/ \E args \in TrendArgs : fetchTrendingBlogs(args)

SpecDetail == InitLikes /\ [][NextDetail]_vars

\* The detail page of a published article that may already have a like of
\* u2 and a comment in the tables the page reads
InitStored ==
  /\ blogs = [b \in {1} |-> PublishedRow("u1", 1)]
  /\ nextBlogId = 2
  /\ blog_likes = EmptyTable
  /\ blog_comments = EmptyTable
  /\ blog_views = EmptyTable
  /\ blog_analytics = EmptyTable
  /\ adminBlogs = [d \in AdminPages |-> EmptyTable]
  /\ profileBlogs = [p \in ProfilePages |-> EmptyTable]
  /\ likeButton = [k \in LikeButtons |->
                     [blogId |-> 1, isLiked |-> FALSE, likeCount |-> 0,
                      loading |-> FALSE, request |-> NoRequest, toast |-> "none"]]
  /\ trending = [args |-> <<>>, rows |-> <<>>]
  /\ apiCall = [by |-> NULL, op |-> "none", id |-> 0, rows |-> 0, error |-> FALSE]
  /\ errorToast = [pg \in AdminPages \cup ProfilePages \cup WritePages |-> "none"]
  /\ publicPage = [page |-> "none", viewer |-> NULL, rows |-> {}]
  /\ commentsBox = [c \in CommentBoxes |->
                      [blogId |-> 1, comments |-> {}, replyingTo |-> NoParent, error |-> "none"]]
  /\ public_likes \in {EmptyTable, [pr \in {<<1, "u2">>} |-> 1]}
  /\ public_comments \in {EmptyTable, [b \in {1} |-> 1]}
  /\ detailPage = NewDetailPage
  /\ badge = NoBadge(0)
  /\ writePage = [w \in WritePages |-> NewWritePage]
  /\ resultsPage = NewResultsPage("search")

NextStored ==
  \/ \E v \in Viewers, b \in BlogIds : fetchBlog(v, b)
  \/ BlogDetail_handleLike
  \/ \E i \in 1..MaxInFlight : BlogDetail_handleLikeResume(i)
  \/ BlogDetail_handleComment

SpecStored == InitStored /\ [][NextStored]_vars

\* The moderation workflow together with trending calls
NextMod == Next \/ \E args \in TrendArgs : fetchTrendingBlogs(args)

SpecMod == Init /\ [][NextMod]_vars

TypeOK ==
  /\ \A b \in DOMAIN blogs : blogs[b].status \in blog_status
  /\ \A b \in DOMAIN blogs : b < nextBlogId

\* ================================================================ claims
\* ---- trending (SpecMod, SpecTrend)
Eligible(b) ==
  /\ b \in DOMAIN blogs
  /\ blogs[b].status = "approved"
  /\ ~blogs[b].is_hidden
  /\ blogs[b].published_at # NULL

ReturnedIds(rows) == {rows[i].blog_id : i \in 1..Len(rows)}

\* C1: every row that get_trending_blogs returns, for any limit, is at that
\* moment an article with status approved, is_hidden false and published_at
\* set; so an article that left approved, was hidden or was deleted is not
\* returned by the next call.
C1_TrendingRowsEligible ==
  \A args \in TrendArgs :
    \A b \in ReturnedIds(get_trending_blogs(IF args = <<>> THEN DefaultLimit ELSE args[1])) :
      Eligible(b)

\* an earlier call returned an article that has since been rejected, hidden
\* or deleted, and a call made now does not return it
C1_Witness ==
  \E b \in ReturnedIds(trending.rows) :
    /\ ~Eligible(b)
    /\ b \notin ReturnedIds(get_trending_blogs(DefaultLimit))

\* C2: in a trending response each row's likes_count is the number of like
\* rows of the article, comments_count the number of its comment rows with
\* is_approved true, and total_engagement their sum (views are not added).
C2_EngagementCounts ==
  \A i \in 1..Len(trending.rows) :
    LET r == trending.rows[i]
        likeRows == SumOver(blog_likes, {pr \in DOMAIN blog_likes : pr[1] = r.blog_id})
        commentRows == {c \in DOMAIN blog_comments : blog_comments[c].blog_id = r.blog_id}
        unapproved == {c \in commentRows : ~blog_comments[c].is_approved}
    IN /\ r.likes_count = likeRows
       /\ r.comments_count = Cardinality(commentRows) - Cardinality(unapproved)
       /\ r.total_engagement = r.likes_count + r.comments_count

\* a returned article with a like, an unapproved comment and a view today
C2_Witness ==
  \E i \in 1..Len(trending.rows) :
    LET r == trending.rows[i]
    IN /\ r.likes_count > 0
       /\ r.views_today > 0
       /\ r.total_engagement = r.likes_count
       /\ \E c \in DOMAIN blog_comments :
            blog_comments[c].blog_id = r.blog_id /\ ~blog_comments[c].is_approved

\* C3: a trending response is ordered by total_engagement descending, then
\* views_today descending, then created_at descending.
C3_TrendingOrder ==
  \A i \in 1..Len(trending.rows) : \A j \in 1..Len(trending.rows) :
    i < j =>
      LET r == trending.rows[i]
          t == trending.rows[j]
      IN \/ r.total_engagement > t.total_engagement
         \/ r.total_engagement = t.total_engagement /\ r.views_today > t.views_today
         \/ /\ r.total_engagement = t.total_engagement
            /\ r.views_today = t.views_today
            /\ r.created_at >= t.created_at

\* two rows tied on engagement: the older article comes first because it has
\* more views today
C3_Witness ==
  /\ Len(trending.rows) = 2
  /\ trending.rows[1].total_engagement = trending.rows[2].total_engagement
  /\ trending.rows[1].total_engagement > 0
  /\ trending.rows[1].views_today > trending.rows[2].views_today
  /\ trending.rows[1].created_at < trending.rows[2].created_at

C5_NoDuplicateLikes ==
  \A pr \in DOMAIN blog_likes : blog_likes[pr] <= 1

\* two like requests of the same user were in flight together: one button
\* shows the like, the other's insert was rejected, and one row exists
C5_Witness ==
  /\ likeButton["k1"].isLiked /\ likeButton["k1"].toast = "Blog liked!"
  /\ ~likeButton["k2"].isLiked /\ likeButton["k2"].toast = "Error updating like"
  /\ likeButton["k2"].request = NoRequest
  /\ blog_likes[<<1, "u1">>] = 1

\* C6: an unlike of an existing like through the like button succeeds and
\* removes the row, and the like that follows re-creates exactly one row, so
\* that the article's like count is what it was before.
C6_UnlikeRelikeSucceeds ==
  [][\A k \in LikeButtons :
       LET pr == <<likeButton[k].blogId, pageProfile[k]>>
       IN likeButton[k].request # NoRequest /\ likeButton'[k].request = NoRequest =>
            /\ likeButton[k].request = "delete" /\ pr \in DOMAIN blog_likes =>
                 pr \notin DOMAIN blog_likes' /\ likeButton'[k].toast = "Like removed"
            /\ likeButton[k].request = "insert" /\ pr \notin DOMAIN blog_likes =>
                 pr \in DOMAIN blog_likes' /\ blog_likes'[pr] = 1]_vars

\* ---- moderation workflow (Spec, SpecTabs)
\* C7: an article's status changes only draft->pending, pending->approved or
\* pending->rejected, and a deleted article does not come back.
C7_StatusTransitions ==
  [][/\ \A b \in DOMAIN blogs \cap DOMAIN blogs' :
          \/ blogs'[b].status = blogs[b].status
          \/ <<blogs[b].status, blogs'[b].status>> \in
               {<<"draft", "pending">>, <<"pending", "approved">>, <<"pending", "rejected">>}
     /\ \A b \in DOMAIN blogs' \ DOMAIN blogs : b >= nextBlogId]_vars

C9_PublishedIffApproved ==
  \A b \in DOMAIN blogs : (blogs[b].published_at # NULL) <=> (blogs[b].status = "approved")

\* C10: is_hidden = true implies status = approved.
C10_HiddenImpliesApproved ==
  \A b \in DOMAIN blogs : blogs[b].is_hidden => blogs[b].status = "approved"

\* ---- roles and row-level security (SpecApi)
\* C11: a step that sets an article's status to approved or rejected, or
\* that changes its is_hidden flag, is a moderation action taken on the
\* dashboard of a profile whose role is admin; no request of a non-admin
\* user, the author included, makes such a change.
C11_OnlyAdminModerates ==
  [][\A b \in DOMAIN blogs \cap DOMAIN blogs' :
       \/ /\ blogs'[b].status # blogs[b].status
          /\ blogs'[b].status \in {"approved", "rejected"}
       \/ blogs'[b].is_hidden # blogs[b].is_hidden
       => \E d \in AdminPages, a \in BlogActions :
            is_admin(pageProfile[d]) /\ handleBlogAction(d, b, a)]_vars

\* C12: a delete request removes the article only when the requester is the
\* article's author or has the admin role; a delete request by any other
\* user removes no row.
C12_DeleteByAuthorOrAdmin ==
  [][\A b \in DOMAIN blogs \ DOMAIN blogs' :
       \E p \in Profiles :
         /\ blogs[b].author_id = p \/ role[p] = "admin"
         /\ \/ \E pg \in ProfilePages : pageProfile[pg] = p /\ handleDeleteBlog(pg, b)
            \/ \E d \in AdminPages : pageProfile[d] = p /\ handleBlogAction(d, b, "delete")
            \/ deleteBlogs(p, b)]_vars

\* a user who is neither the author nor an admin asked to delete an existing
\* article and no row was removed
C12_Witness ==
  /\ apiCall.op = "delete" /\ apiCall.rows = 0
  /\ apiCall.id \in DOMAIN blogs
  /\ blogs[apiCall.id].author_id # apiCall.by /\ role[apiCall.by] # "admin"

\* ---- cascading delete (SpecCascade)
\* C13: deleting an article that has comments, likes, view events or
\* analytics rows succeeds (no delete from the profile page or the dashboard
\* ends in its error toast), and no like, comment, view or analytics row
\* references an article that is not in blogs.
C13_DeleteCascades ==
  /\ \A pg \in ProfilePages : errorToast[pg] # "Error deleting blog"
  /\ \A d \in AdminPages : errorToast[d] # "Error deleteing blog"
  /\ \A pr \in DOMAIN blog_likes : pr[1] \in DOMAIN blogs
  /\ \A c \in DOMAIN blog_comments : blog_comments[c].blog_id \in DOMAIN blogs
  /\ \A b \in DOMAIN blog_views : b \in DOMAIN blogs
  /\ \A r \in DOMAIN blog_analytics : r.blog_id \in DOMAIN blogs

\* ---- public pages (SpecPublic)
\* C14: whenever a public page (home lists, category page, search results,
\* article detail, trending) is loaded, every article it shows has status
\* approved; and a row whose status is not approved passes the SELECT policy
\* only for its author or an admin.
C14_OnlyApprovedPublic ==
  [][/\ publicPage' # publicPage =>
          \A b \in publicPage'.rows : b \in DOMAIN blogs' /\ blogs'[b].status = "approved"
     /\ trending' # trending =>
          \A b \in ReturnedIds(trending'.rows) :
            b \in DOMAIN blogs' /\ blogs'[b].status = "approved"
     /\ \A b \in DOMAIN blogs' : \A p \in Profiles :
          blogs'[b].status # "approved" /\ CanReadBlog(p, b)'
            => blogs'[b].author_id = p \/ role[p] = "admin"]_vars

\* the author loaded the home page while their own article was pending, and
\* the page showed nothing
C14_Witness ==
  /\ publicPage.page = "home" /\ publicPage.viewer = "u1" /\ publicPage.rows = {}
  /\ \E b \in DOMAIN blogs : blogs[b].author_id = "u1" /\ blogs[b].status = "pending"

\* C15: while an article has is_hidden = true, no load of the home lists,
\* the category page, the search results, the article detail page or the
\* trending list shows it.
C15_HiddenNotPublic ==
  [][/\ publicPage' # publicPage =>
          \A b \in publicPage'.rows : b \in DOMAIN blogs' => ~blogs'[b].is_hidden
     /\ trending' # trending =>
          \A b \in ReturnedIds(trending'.rows) : b \in DOMAIN blogs' => ~blogs'[b].is_hidden]_vars

\* C16: each successful load of an approved article's detail page appends
\* exactly one blog_views row for that article, and blog_views rows are
\* otherwise removed only together with their article.
C16_ViewEventPerLoad ==
  [][/\ \A v \in Viewers, b \in DOMAIN blogs :
          fetchBlog(v, b) /\ publicPage'.rows = {b} =>
            CountViewsToday(blog_views', b) = CountViewsToday(blog_views, b) + 1
     /\ \A b \in DOMAIN blogs \cap DOMAIN blogs' :
          CountViewsToday(blog_views', b) >= CountViewsToday(blog_views, b)]_vars

\* ---- daily analytics (SpecAnalytics)
\* C17: blog_analytics holds at most one row per (blog_id, date), whatever
\* page views, likes, unlikes and comment insertions and deletions happen;
\* an event for a pair that has a row updates that row.
C17_OneAnalyticsRowPerDay ==
  /\ \A r \in DOMAIN blog_analytics : blog_analytics[r] = 1
  /\ \A r1, r2 \in DOMAIN blog_analytics :
       r1.blog_id = r2.blog_id /\ r1.date = r2.date => r1 = r2

\* one row that a like, a comment and then a page view have each written
C17_Witness ==
  \E r \in DOMAIN blog_analytics : r.views > 0 /\ r.likes > 0 /\ r.comments > 0

\* ---- comments (SpecComments)
\* C18: every blog_comments row with a parent has as its parent a row that
\* exists, has no parent itself, and belongs to the same article.
C18_ReplyParents ==
  \A c \in Replies(blog_comments) :
    LET parent == blog_comments[c].parent_id
    IN /\ parent \in DOMAIN blog_comments
       /\ blog_comments[parent].parent_id = NoParent
       /\ blog_comments[parent].blog_id = blog_comments[c].blog_id

\* ---- detail page (SpecDetail)
\* C19: a like or a comment that a signed-in user successfully makes from an
\* article's detail page raises that article's likes_count or
\* comments_count, and with it total_engagement, in the trending result
\* computed from then on.
C19_DetailEngagementCounted ==
  [][\A b \in DOMAIN blogs \cap DOMAIN blogs' :
       /\ CountLikes(public_likes', b) = CountLikes(public_likes, b) + 1 =>
            /\ TrendingRow(b)'.likes_count = TrendingRow(b).likes_count + 1
            /\ TrendingRow(b)'.total_engagement = TrendingRow(b).total_engagement + 1
       /\ CountViewsToday(public_comments', b) = CountViewsToday(public_comments, b) + 1 =>
            /\ TrendingRow(b)'.comments_count = TrendingRow(b).comments_count + 1
            /\ TrendingRow(b)'.total_engagement = TrendingRow(b).total_engagement + 1]_vars

\* ---- badges (SpecBadge)
\* C20: for every engagement value e >= 0 the badge is viral if e >= 50,
\* trending if 20 <= e < 50, popular if 10 <= e < 20 and new otherwise, and
\* the trending page and the home sidebar give every value the same class.
C20_BadgeClasses ==
  LET e == badge.engagement
      class == CASE e >= 50 -> "Viral"
                 [] e >= 20 /\ e < 50 -> "Trending"
                 [] e >= 10 /\ e < 20 -> "Popular"
                 [] OTHER -> "New"
  IN /\ badge.page.text # "none" => badge.page.text = class
     /\ badge.sidebar # "none" => badge.sidebar = class
     /\ badge.page.text # "none" /\ badge.sidebar # "none" => badge.page.text = badge.sidebar

\* the boundary value 50 rendered as viral by both views
C20_Witness ==
  /\ badge.engagement = 50
  /\ badge.page.text = "Viral"
  /\ badge.sidebar = "Viral"

\* ---- saving (SpecWrite)
\* C21: a save whose generated slug equals the slug of an existing article
\* inserts no row, raises the error toast, and leaves the page at /write
\* with saving false.
C21_DuplicateSlugRejected ==
  [][\A w \in WritePages :
       /\ writePage'[w] # writePage[w] \/ errorToast'[w] # errorToast[w]
       /\ writePage'[w].sent
       /\ \E b \in DOMAIN blogs : blogs[b].slug = writePage'[w].slug
       => /\ blogs' = blogs
          /\ errorToast'[w] = "Error saving blog"
          /\ writePage'[w].errorMessage # "none"
          /\ writePage'[w].location = "/write"
          /\ ~writePage'[w].saving]_vars

\* an article is stored and a save with the same slug was turned down
C21_Witness ==
  /\ writePage["w1"].sent
  /\ \E b \in DOMAIN blogs : blogs[b].slug = writePage["w1"].slug
  /\ errorToast["w1"] = "Error saving blog"
  /\ writePage["w1"].location = "/write"
  /\ ~writePage["w1"].saving

\* ---- detail page (SpecPublic, SpecDetail)
\* C22: when the detail page's fetch finds no approved article for the slug
\* (unknown slug or article not approved), the viewer is sent to the home
\* page, no view is counted for any article, and loading ends.
C22_NotFoundRedirects ==
  [][\A v \in Viewers, b \in BlogIds :
       /\ b \notin DOMAIN blogs \/ blogs[b].status # "approved"
       /\ fetchBlog(v, b)
       => /\ detailPage'.location = "/"
          /\ ~detailPage'.loading
          /\ UNCHANGED <<blogs, blog_views, blog_analytics, resultsPage>>]_vars

\* the home redirect after a load of an article that is stored but not approved
C22_Witness ==
  /\ publicPage.page = "detail" /\ publicPage.rows = {}
  /\ detailPage.location = "/" /\ ~detailPage.loading
  /\ \E b \in DOMAIN blogs : blogs[b].status # "approved" /\ blogs[b].view_count = 0
  /\ blog_analytics = EmptyTable

\* ---- category and search pages (SpecResults)
\* C23: with two result queries in flight, the list displayed after both
\* resolved is that of the response that resolved last, also when that
\* response belongs to the earlier query; no response is discarded.
C23_LastResponseWins ==
  LET r == resultsPage
  IN r.resolved # <<>> => r.blogs = QueryData(r.queries[r.resolved[Len(r.resolved)]])

\* two queries were in flight, the later one resolved first, and the rows
\* of the earlier one are on display although they are not those asked last
C23_Witness ==
  LET r == resultsPage
      n == Len(r.resolved)
  IN /\ n >= 2 /\ n = Len(r.queries)
     /\ r.resolved[n] < r.resolved[n - 1]
     /\ r.blogs = QueryData(r.queries[r.resolved[n]])
     /\ r.blogs # QueryData(r.queries[Len(r.queries)])

\* C29: on the search page, after the user selected page p and every query
\* has settled, the current page is p and rows (p-1)*12 .. p*12-1 of the
\* result set are on display (stated here for responses that arrive in the
\* order of their queries).
C29_SelectedPageShown ==
  LET r == resultsPage
  IN /\ r.page = "search" /\ r.selected # 0
     /\ r.deps = <<r.sortBy, r.currentPage>>
     /\ r.resolved = [i \in 1..Len(r.queries) |-> i]
     => /\ r.currentPage = r.selected
        /\ r.blogs = QueryData([sortBy |-> r.sortBy, page |-> r.selected])

\* ---- optimistic updates (SpecCascade, SpecLikes, SpecDetail)
\* C24: when the delete request of the profile page fails, the article that
\* was taken out of the local list is in it again after the refetch and the
\* list equals the backend's set of the author's articles; when the delete
\* succeeds the article stays out of the list.
C24_FailedDeleteRestores ==
  [][\A pg \in ProfilePages, b \in BlogIds :
       handleDeleteBlog(pg, b) =>
         IF b \in DOMAIN blogs /\ b \in DOMAIN blogs'
           THEN /\ b \in DOMAIN profileBlogs'[pg]
                /\ profileBlogs'[pg] = UserBlogs(pageProfile[pg])'
           ELSE b \notin DOMAIN profileBlogs'[pg]]_vars

\* after a delete that the backend turned down, the article is listed
C24_Witness ==
  /\ errorToast["p1"] = "Error deleting blog"
  /\ 1 \in DOMAIN blogs /\ CountLikes(blog_likes, 1) > 0
  /\ 1 \in DOMAIN profileBlogs["p1"]

\* a step in which a like or unlike request of LikeButton k1 or of the
\* detail page fails and the liked flag or the like count shown changes
FailedToggleChangesState ==
  \/ LET b == likeButton["k1"].blogId
         u == pageProfile["k1"]
     IN /\ handleLikeResume("k1")
        /\ IF likeButton["k1"].request = "delete" THEN DeleteLikeRaises(b, u)
           ELSE InsertLikeRaises(b, u)
        /\ \/ likeButton'["k1"].isLiked # likeButton["k1"].isLiked
           \/ likeButton'["k1"].likeCount # likeButton["k1"].likeCount
  \/ \E i \in 1..MaxInFlight :
       /\ BlogDetail_handleLikeResume(i)
       /\ detailPage.requests[i] = "insert"
       /\ \E b \in publicPage.rows :
            b \notin DOMAIN blogs \/ <<b, publicPage.viewer>> \in DOMAIN public_likes
       /\ \/ detailPage'.isLiked # detailPage.isLiked
          \/ detailPage'.likeCount # detailPage.likeCount

C27_LikeCountNetChange ==
  /\ detailPage.likeCount >= 0
  /\ publicPage.page = "detail" /\ publicPage.rows # {} /\ detailPage.requests = <<>>
     => \A b \in publicPage.rows :
          detailPage.likeCount = CountLikes(public_likes, b) - detailPage.likesAtLoad

\* C28: once the detail page has loaded an article, the comment list, the
\* like count and the liked flag shown are those stored for the article.
C28_DetailShowsStored ==
  [][\A v \in Viewers, b \in BlogIds :
       SingleApproved(v, b) /\ fetchBlog(v, b)
       => /\ detailPage'.likeCount = CountLikes(public_likes', b)
          /\ detailPage'.isLiked = (<<b, v>> \in DOMAIN public_likes')
          /\ detailPage'.comments = CountViewsToday(public_comments', b)]_vars

\* ---- daily rollup (SpecAnalytics)
\* views of today's blog_analytics row of article b in table t, 0 without a row
RollupViews(t, b) ==
  LET rows == {r \in DOMAIN t : r.blog_id = b /\ r.date = CURRENT_DATE}
  IN IF rows = {} THEN 0 ELSE (CHOOSE r \in rows : TRUE).views

\* C26: the views value of today's rollup row counts the page views of the
\* article: a page view raises it by exactly one, and no like, unlike,
\* comment insertion or comment deletion changes it.
C26_RollupViewsCountPageViews ==
  [][\A b \in DOMAIN blogs \cap DOMAIN blogs' :
       RollupViews(blog_analytics', b) - RollupViews(blog_analytics, b)
         = blogs'[b].view_count - blogs[b].view_count]_vars

\* ---- submission time (SpecApi)
\* C30: in every reachable state an article has submitted_at = null exactly
\* when its status is draft.
C30_SubmittedIffNotDraft ==
  \A b \in DOMAIN blogs : (blogs[b].submitted_at = NULL) <=> (blogs[b].status = "draft")

====
